---- MODULE Spec2Model ----
(***************************************************************************)
(* A model of fracpaq.py: the node-file reader getNodes, the geometry      *)
(* functions getSegAngles, getSegLengths and getTraceLengths, and the      *)
(* histogram part of rose (lines 208-233).                                 *)
(*                                                                         *)
(* Numbers.  Python floats are modelled in fixed point:                    *)
(*   - coordinates are integers;                                           *)
(*   - radians are integers in units of 10^-6 rad (np.pi is 3141593);      *)
(*   - degrees of getSegAngles are integers in units of 10^-4 degree       *)
(*     (180 degrees is 1800000, 179.5 degrees is 1795000);                 *)
(*   - lengths are integers in units of 10^-2;                             *)
(*   - the azimuths handed to rose are whole degrees.                      *)
(* Every arithmetic step rounds to its grid, as a float operation rounds   *)
(* to a double: to the nearest value, and np.sqrt downwards.               *)
(***************************************************************************)
EXTENDS Integers, Sequences, FiniteSets, TLC

VARIABLES
    reader,        \* getNodes: the lines of the node file, each a sequence of tokens
    xlist,         \* x coordinates grouped by trace (NodeList[0])
    ylist,         \* y coordinates grouped by trace (NodeList[1])
    called,        \* the functions that have returned since the store was made
    anglelist,     \* what getSegAngles returned
    lengthlist,    \* what getSegLengths returned
    tracelengths,  \* what getTraceLengths returned
    azimuths,      \* rose: the caller's azimuths object
    z,             \* rose: the caller's z object (NoZ when z=None)
    isArray,       \* rose: TRUE when the caller's azimuths is an ndarray, FALSE for a list
    out            \* rose: what the last call left behind

vars == <<reader, xlist, ylist, called, anglelist, lengthlist, tracelengths,
          azimuths, z, isArray, out>>

geomVars == <<called, anglelist, lengthlist, tracelengths>>
roseVars == <<azimuths, z, isArray, out>>

----------------------------------------------------------------------------
(* Bounds of the model *)

\* the far y coordinate: segments (+-1, +-Far) lie within 0.5 degrees of vertical
Far == 120
\* the most vertices a trace store holds, all traces together
MaxNodes == 4
\* the most lines of a node file
MaxLines == 2
\* the most tokens on a line of a node file
MaxTokens == 4
\* the most azimuths handed to rose
MaxAz == 2
\* the most bins asked of rose
MaxBins == 4

----------------------------------------------------------------------------
(* Helpers *)

Abs(n) == IF n < 0 THEN -n ELSE n

\* n / d rounded to the nearest integer, halves away from zero (d > 0)
RoundDiv(n, d) == IF n >= 0 THEN (2 * n + d) \div (2 * d)
                            ELSE -((2 * (-n) + d) \div (2 * d))

RECURSIVE SumSeq(_)
SumSeq(s) == IF s = <<>> THEN 0 ELSE Head(s) + SumSeq(Tail(s))

RECURSIVE Concat(_)
\* the concatenation of a sequence of sequences
Concat(ss) == IF ss = <<>> THEN <<>> ELSE Head(ss) \o Concat(Tail(ss))

----------------------------------------------------------------------------
(* np.arctan2 in fixed point: CORDIC in units of 10^-8 rad, the result      *)
(* rounded to 10^-6 rad.                                                    *)

\* atan(2^-i) for i = 0..19, in units of 10^-8 rad
AtanTable == <<78539816, 46364761, 24497866, 12435499, 6241881, 3123983,
               1562373, 781234, 390623, 195312, 97656, 48828, 24414, 12207,
               6104, 3052, 1526, 763, 381, 191>>

PiFine == 314159265       \* pi in units of 10^-8 rad
HalfPiFine == 157079633   \* pi/2 in units of 10^-8 rad
NpPi == 3141593           \* np.pi in units of 10^-6 rad
VecScale == 1048576       \* 2^20: the vector is scaled up before rotating

Pow2(i) == IF i = 0 THEN 1 ELSE 2 ^ i

RECURSIVE Cordic(_, _, _, _)
\* rotate (x, y) onto the x axis, accumulating the angle turned
Cordic(x, y, turned, i) ==
    IF i > Len(AtanTable) THEN turned
    ELSE LET p == Pow2(i - 1)
         IN  IF y > 0
             THEN Cordic(x + (y \div p), y - (x \div p), turned + AtanTable[i], i + 1)
             ELSE Cordic(x - (y \div p), y + (x \div p), turned - AtanTable[i], i + 1)

\* np.arctan2(a, b): the angle of the vector with ordinate a and abscissa b, in
\* (-pi, pi], in units of 10^-6 rad
arctan2(a, b) ==
    IF a = 0 THEN (IF b >= 0 THEN 0 ELSE NpPi)
    ELSE LET t    == IF b = 0 THEN HalfPiFine
                     ELSE Cordic(Abs(b) * VecScale, Abs(a) * VecScale, 0, 1)
             fine == IF b >= 0 THEN t ELSE PiFine - t
             r    == RoundDiv(fine, 100)
         IN  IF a > 0 THEN r ELSE -r

\* rad * 180 / np.pi in units of 10^-4 degree, rounded to nearest; the division is
\* done in three steps to stay inside 32-bit integers
ToDegrees(rad) ==
    LET A  == Abs(rad) * 180
        q0 == A \div NpPi
        m0 == A % NpPi
        q1 == (m0 * 100) \div NpPi
        m1 == (m0 * 100) % NpPi
        q2 == (m1 * 100) \div NpPi
        m2 == (m1 * 100) % NpPi
        v  == q0 * 10000 + q1 * 100 + q2 + (IF 2 * m2 >= NpPi THEN 1 ELSE 0)
    IN  IF rad < 0 THEN -v ELSE v

Deg180 == 1800000     \* 180 in units of 10^-4 degree
SnapFrom == 1795000   \* 179.5 in units of 10^-4 degree

----------------------------------------------------------------------------
(* getSegAngles, lines 73-99 *)

\* a mutant of Normalise: the fold without the snap to zero
NormaliseNoSnap(segangle) == IF segangle < 0 THEN segangle + Deg180 ELSE segangle

\* lines 93-96: add 180 if negative, then snap to 0.0 from 179.5 up
Normalise(segangle) ==
    LET folded == IF segangle < 0 THEN segangle + Deg180 ELSE segangle
    IN  IF folded >= SnapFrom THEN 0 ELSE folded

\* lines 92-96: the angle of one segment with change dx in x and dy in y
SegAngle(dx, dy) == Normalise(ToDegrees(arctan2(dx, dy)))

\* lines 89-97: the angles of one trace, s = 1 .. len(xcoord)-1
TraceAngles(xcoord, ycoord) ==
    [s \in 1..(Len(xcoord) - 1) |->
        SegAngle(xcoord[s + 1] - xcoord[s], ycoord[s + 1] - ycoord[s])]

getSegAngles(xl, yl) ==
    Concat([n \in 1..Len(xl) |-> TraceAngles(xl[n], yl[n])])

----------------------------------------------------------------------------
(* getSegLengths, lines 101-121, and getTraceLengths, lines 123-140 *)

RECURSIVE SqrtIter(_, _)
\* Newton's iteration down to the integer square root of n
SqrtIter(n, x) ==
    LET y == (x + n \div x) \div 2
    IN  IF y >= x THEN x ELSE SqrtIter(n, y)

\* the integer square root of n >= 0
Isqrt(n) == IF n = 0 THEN 0 ELSE SqrtIter(n, n)

\* np.sqrt(dx**2 + dy**2) in units of 10^-2
Dist(dx, dy) == Isqrt((dx * dx + dy * dy) * 10000)

\* a mutant of TraceSegLengths: the loop starts one segment late
TraceSegLengthsLate(xcoord, ycoord) ==
    [s \in 1..(Len(xcoord) - 2) |->
        Dist(xcoord[s + 2] - xcoord[s + 1], ycoord[s + 2] - ycoord[s + 1])]

\* lines 117-119: the lengths of one trace, s = 1 .. len(xcoord)-1
TraceSegLengths(xcoord, ycoord) ==
    [s \in 1..(Len(xcoord) - 1) |->
        Dist(xcoord[s + 1] - xcoord[s], ycoord[s + 1] - ycoord[s])]

getSegLengths(xl, yl) ==
    Concat([n \in 1..Len(xl) |-> TraceSegLengths(xl[n], yl[n])])

\* line 138: one value for every trace, from its first to its last vertex
getTraceLengths(xl, yl) ==
    [n \in 1..Len(xl) |->
        Dist(xl[n][Len(xl[n])] - xl[n][1], yl[n][Len(yl[n])] - yl[n][1])]

----------------------------------------------------------------------------
(* getNodes, lines 19-71 *)

\* the tokens line.split() finds on the lines of the modelled files
Tokens == {"1.0", "2.0"}

\* float(x), in units of 10^-1
Float(tok) == IF tok = "1.0" THEN 10 ELSE 20

\* line 48
nNodesThisTrace(pointarray) == Len(pointarray) \div 2

\* lines 57-61: the value at every index n = 0, 2, 4, .. below len(pointarray)-1,
\* moved up by off (0 for x, 1 for y)
Coords(pointarray, off) ==
    [k \in 1..(Len(pointarray) \div 2) |-> pointarray[2 * k - 1 + off]]

\* a mutant of KeepsLine: every line that holds a vertex is kept
KeepsLineFromOne(pointarray) == nNodesThisTrace(pointarray) >= 1

\* line 50
KeepsLine(pointarray) == nNodesThisTrace(pointarray) >= 2

RECURSIVE ReadLines(_, _)
\* lines 39-64: off = 0 gives nodexlist, off = 1 gives nodeylist
ReadLines(lines, off) ==
    IF lines = <<>> THEN <<>>
    ELSE LET pointarray == [i \in 1..Len(Head(lines)) |-> Float(Head(lines)[i])]
         IN  IF KeepsLine(pointarray)
             THEN <<Coords(pointarray, off)>> \o ReadLines(Tail(lines), off)
             ELSE ReadLines(Tail(lines), off)

----------------------------------------------------------------------------
(* rose, lines 208-233.  The azimuths are whole degrees; z is an ndarray or None, *)
(* modelled as [given, vals].                                                      *)

\* lines 224-225: one turn off what is above 360, then one turn onto what is below 0
WrapOnce(a) ==
    LET down == IF a > 360 THEN a - 360 ELSE a
    IN  IF down < 0 THEN down + 360 ELSE down

\* the edges np.histogram makes of range=[0, 360] and a number of bins:
\* edge i of 0..bins
Edge(bins, i) == (i * 360) \div bins

\* np.histogram: bin i of 1..bins is [edge i-1, edge i), the last bin is closed on
\* the right, and what lies outside [0, 360] is left out
InBin(bins, i, a) ==
    /\ Edge(bins, i - 1) <= a
    /\ IF i = bins THEN a <= Edge(bins, i) ELSE a < Edge(bins, i)

Histogram(az, bins) ==
    [i \in 1..bins |-> Cardinality({k \in 1..Len(az) : InBin(bins, i, az[k])})]

\* np.digitize(a, edges): the number of edges at or below a, so 0 below the first
\* edge and bins+1 from the last edge on
Digitize(bins, a) == Cardinality({j \in 0..bins : Edge(bins, j) <= a})

\* idx.max()
IdxMax(az, bins) ==
    LET idx == {Digitize(bins, az[k]) : k \in 1..Len(az)}
    IN  CHOOSE m \in idx : \A j \in idx : j <= m

\* z[idx == i]: the z values at the positions digitize puts in bin i, in order
Binned(az, zs, bins, i) ==
    LET RECURSIVE Pick(_)
        Pick(k) == IF k > Len(az) THEN <<>>
                   ELSE IF Digitize(bins, az[k]) = i THEN <<zs[k]>> \o Pick(k + 1)
                   ELSE Pick(k + 1)
    IN  Pick(1)

\* color_by(...) followed by np.ma.masked_invalid: np.sum of nothing is 0, np.mean
\* of nothing is nan, which is masked; the mean is in units of 10^-2
Reduce(reduction, vals) ==
    IF reduction = "sum" THEN [masked |-> FALSE, value |-> SumSeq(vals)]
    ELSE IF vals = <<>> THEN [masked |-> TRUE, value |-> 0]
    ELSE [masked |-> FALSE, value |-> RoundDiv(SumSeq(vals) * 100, Len(vals))]

\* line 232: one aggregate for each i of 1..idx.max()
Aggregate(az, zs, bins, reduction) ==
    [i \in 1..IdxMax(az, bins) |-> Reduce(reduction, Binned(az, zs, bins, i))]

\* line 229: np.sqrt(counts), in units of 10^-2
SqrtCounts(counts) == [i \in 1..Len(counts) |-> Isqrt(counts[i] * 10000)]

NoZ == [given |-> FALSE, vals |-> <<>>]

\* what rose hands to colored_bar: the array after lines 224-225, the counts of
\* np.histogram, the heights (the counts, or their roots under eqarea) and the
\* reduced z; status "error" when the call raised instead
Failed(args) ==
    [status |-> "error", args |-> args, norm |-> <<>>, counts |-> <<>>,
     heights |-> <<>>, hasAgg |-> FALSE, agg |-> <<>>]

NoArgs == [bins |-> 0, bidirectional |-> FALSE, color_by |-> "", eqarea |-> FALSE]

NoOut == [status |-> "none", args |-> NoArgs, norm |-> <<>>, counts |-> <<>>,
          heights |-> <<>>, hasAgg |-> FALSE, agg |-> <<>>]

\* lines 208-222: the array the histogram is made of, before it is wrapped
Folded(az, bidirectional) ==
    IF bidirectional THEN az \o [k \in 1..Len(az) |-> az[k] + 180] ELSE az

\* lines 209-211 and 221-222: the z the aggregates are made of
ZUsed(az, zin, bidirectional, color_by) ==
    LET z0 == IF color_by = "count"
              THEN [given |-> TRUE, vals |-> [k \in 1..Len(az) |-> 1]]
              ELSE zin
    IN  IF bidirectional /\ z0.given
        THEN [given |-> TRUE, vals |-> z0.vals \o z0.vals]
        ELSE z0

\* lines 226-236: the call's result on the wrapped array az and the z in use.
\* idx.max() raises on an empty array, and z[idx == i] raises when z and idx differ
\* in length
RoseResult(az, zs, args) ==
    LET counts    == Histogram(az, args.bins)
        heights   == IF args.eqarea THEN SqrtCounts(counts) ELSE counts
        reduction == IF args.color_by = "count" THEN "sum" ELSE args.color_by
    IN  IF ~zs.given
        THEN [status |-> "ok", args |-> args, norm |-> az, counts |-> counts,
              heights |-> heights, hasAgg |-> FALSE, agg |-> <<>>]
        ELSE IF Len(az) = 0 THEN Failed(args)
        ELSE IF IdxMax(az, args.bins) >= 1 /\ Len(zs.vals) # Len(az) THEN Failed(args)
        ELSE [status |-> "ok", args |-> args, norm |-> az, counts |-> counts,
              heights |-> heights, hasAgg |-> TRUE,
              agg |-> Aggregate(az, zs.vals, args.bins, reduction)]

----------------------------------------------------------------------------
(* The trace stores and node files the model draws its inputs from *)

\* the vertices: (0,0)->(1,2) is a slanted segment, (0,0)->(0,Far) a vertical one,
\* (0,0)->(1,Far) lies just east of vertical, (1,2)->(0,Far) just west of it
Points == {<<0, 0>>, <<1, 2>>, <<0, Far>>, <<1, Far>>}

RECURSIVE StoresOf(_)
\* the stores of k vertices in all, every trace holding at least one vertex
StoresOf(k) ==
    IF k = 0 THEN {<<>>}
    ELSE UNION {{<<t>> \o s : t \in [1..j -> Points], s \in StoresOf(k - j)} : j \in 1..k}

Stores == UNION {StoresOf(k) : k \in 0..MaxNodes}

Xs(store) == [n \in 1..Len(store) |-> [i \in 1..Len(store[n]) |-> store[n][i][1]]]
Ys(store) == [n \in 1..Len(store) |-> [i \in 1..Len(store[n]) |-> store[n][i][2]]]

Lines == UNION {[1..k -> Tokens] : k \in 0..MaxTokens}
Files == UNION {[1..k -> Lines] : k \in 0..MaxLines}

\* the azimuths of the modelled calls: -400 and 800 lie more than a turn outside
\* [0, 360], 400 within a turn of it, and 180 folds onto 360
AzValues == {-400, 0, 90, 180, 400, 800}
AzSeqs == UNION {[1..k -> AzValues] : k \in 0..MaxAz}

\* the z of the modelled calls: None, or 1, 2, 4, .. of any length up to MaxAz + 1,
\* so that a sum of z values names the positions summed
ZChoices == {NoZ} \cup {[given |-> TRUE, vals |-> [k \in 1..n |-> 2 ^ (k - 1)]] :
                          n \in 0..(MaxAz + 1)}

\* the numbers of bins of the modelled calls: those that give whole-degree edges
BinChoices == {b \in 1..MaxBins : 360 % b = 0}

----------------------------------------------------------------------------
(* The geometry functions applied to a store the caller holds *)

InitGeom ==
    /\ \E store \in Stores : xlist = Xs(store) /\ ylist = Ys(store)
    /\ reader = <<>>
    /\ called = {}
    /\ anglelist = <<>>
    /\ lengthlist = <<>>
    /\ tracelengths = <<>>
    /\ azimuths = <<>>
    /\ z = NoZ
    /\ isArray = FALSE
    /\ out = NoOut

GetSegAngles ==
    /\ anglelist' = getSegAngles(xlist, ylist)
    /\ called' = called \cup {"getSegAngles"}
    /\ UNCHANGED <<reader, xlist, ylist, lengthlist, tracelengths, roseVars>>

GetSegLengths ==
    /\ lengthlist' = getSegLengths(xlist, ylist)
    /\ called' = called \cup {"getSegLengths"}
    /\ UNCHANGED <<reader, xlist, ylist, anglelist, tracelengths, roseVars>>

GetTraceLengths ==
    /\ tracelengths' = getTraceLengths(xlist, ylist)
    /\ called' = called \cup {"getTraceLengths"}
    /\ UNCHANGED <<reader, xlist, ylist, anglelist, lengthlist, roseVars>>

NextGeom == GetSegAngles \/ GetSegLengths \/ GetTraceLengths

SpecGeom == InitGeom /\ [][NextGeom]_vars

----------------------------------------------------------------------------
(* getNodes applied to a node file *)

InitNodes ==
    /\ reader \in Files
    /\ xlist = <<>>
    /\ ylist = <<>>
    /\ called = {}
    /\ anglelist = <<>>
    /\ lengthlist = <<>>
    /\ tracelengths = <<>>
    /\ azimuths = <<>>
    /\ z = NoZ
    /\ isArray = FALSE
    /\ out = NoOut

GetNodes ==
    /\ xlist' = ReadLines(reader, 0)
    /\ ylist' = ReadLines(reader, 1)
    /\ called' = called \cup {"getNodes"}
    /\ UNCHANGED <<reader, anglelist, lengthlist, tracelengths, roseVars>>

NextNodes == GetNodes

SpecNodes == InitNodes /\ [][NextNodes]_vars

----------------------------------------------------------------------------
(* Properties of the geometry functions, checked under SpecGeom *)

\* the segments of a store: trace n has Len(xl[n]) - 1 of them
SegCount(xl) == SumSeq([n \in 1..Len(xl) |-> Len(xl[n]) - 1])

\* the segments of the traces before trace n
SegBefore(xl, n) == SumSeq([m \in 1..(n - 1) |-> Len(xl[m]) - 1])

\* the k-th segment of a store, traces in store order and segments in vertex order:
\* <<n, s>> is the segment from vertex s to vertex s+1 of trace n
SegAt(xl, k) ==
    CHOOSE p \in (1..Len(xl)) \X (1..MaxNodes) :
        /\ p[2] <= Len(xl[p[1]]) - 1
        /\ SegBefore(xl, p[1]) + p[2] = k

SegDx(k) == LET p == SegAt(xlist, k) IN xlist[p[1]][p[2] + 1] - xlist[p[1]][p[2]]
SegDy(k) == LET p == SegAt(xlist, k) IN ylist[p[1]][p[2] + 1] - ylist[p[1]][p[2]]

\* C1: when every trace of the store has at least 2 vertices, getSegAngles and
\* getSegLengths return lists of one length, the sum over the traces of (N_t - 1),
\* and the k-th angle and the k-th length come from the same, k-th, segment
C1_SameSegments ==
    ( /\ {"getSegAngles", "getSegLengths"} \subseteq called
      /\ \A n \in 1..Len(xlist) : Len(xlist[n]) >= 2 )
    => /\ Len(anglelist) = SegCount(xlist)
       /\ Len(lengthlist) = SegCount(xlist)
       /\ \A k \in 1..SegCount(xlist) :
            /\ anglelist[k] = SegAngle(SegDx(k), SegDy(k))
            /\ lengthlist[k] = Dist(SegDx(k), SegDy(k))

\* both functions have run on a store of two traces of two vertices each whose
\* segments differ
C1_Witness ==
    /\ {"getSegAngles", "getSegLengths"} \subseteq called
    /\ Len(xlist) = 2
    /\ Len(xlist[1]) = 2 /\ Len(xlist[2]) = 2
    /\ Len(anglelist) = 2 /\ Len(lengthlist) = 2
    /\ anglelist[1] # anglelist[2]
    /\ lengthlist[1] # lengthlist[2]

\* C2: every angle getSegAngles returns is at least 0 and below 180 degrees, and
\* a segment whose raw angle is 180, or lies in [-0.5, 0) or in [179.5, 180], is
\* given the angle 0.0
C2_AngleRange ==
    "getSegAngles" \in called
    => \A k \in 1..Len(anglelist) :
         LET raw == ToDegrees(arctan2(SegDx(k), SegDy(k)))
         IN  /\ 0 <= anglelist[k] /\ anglelist[k] < Deg180
             /\ (raw = Deg180 \/ (-5000 <= raw /\ raw < 0) \/ raw >= SnapFrom)
                  => anglelist[k] = 0

\* getSegAngles has run on the trace (1,2), (0,Far), (0,0): its first segment has a
\* raw angle in [-0.5, 0), its second a raw angle of exactly 180; both give 0
C2_Witness ==
    /\ "getSegAngles" \in called
    /\ xlist = <<<<1, 0, 0>>>>
    /\ ylist = <<<<2, Far, 0>>>>
    /\ ToDegrees(arctan2(-1, Far - 2)) < 0
    /\ ToDegrees(arctan2(-1, Far - 2)) >= -5000
    /\ ToDegrees(arctan2(0, -Far)) = Deg180
    /\ anglelist = <<0, 0>>

\* the traces of the store that have at least 2 vertices
ProperTraces == {n \in 1..Len(xlist) : Len(xlist[n]) >= 2}

\* C8: a trace of exactly 1 vertex adds no element to any of the three outputs:
\* getSegAngles and getSegLengths return one element per segment and
\* getTraceLengths one value per trace of at least 2 vertices
C8_DegenerateExcluded ==
    /\ "getSegAngles" \in called => Len(anglelist) = SegCount(xlist)
    /\ "getSegLengths" \in called => Len(lengthlist) = SegCount(xlist)
    /\ "getTraceLengths" \in called => Len(tracelengths) = Cardinality(ProperTraces)

\* the store of one trace, of two vertices, with its vertices in the other order
Reversed(l) == <<<<l[1][2], l[1][1]>>>>

\* within 0.5 degrees of vertical: |dx| <= |dy| * tan(0.5 degrees)
NearVertical(dx, dy) == dy # 0 /\ Abs(dx) * 10000000 <= Abs(dy) * 87268

\* C10: the trace [p, q] and the trace [q, p] yield the same angle, and a segment
\* within 0.5 degrees of vertical yields 0.0 both ways
C10_DirectionIndependent ==
    ( /\ "getSegAngles" \in called
      /\ Len(xlist) = 1
      /\ Len(xlist[1]) = 2 )
    => /\ anglelist = getSegAngles(Reversed(xlist), Reversed(ylist))
       /\ NearVertical(xlist[1][2] - xlist[1][1], ylist[1][2] - ylist[1][1])
            => anglelist = <<0>>

----------------------------------------------------------------------------
(* Properties of getNodes, checked under SpecNodes *)

\* the lines of the file with at least 4 tokens
LongLines == {i \in 1..Len(reader) : Len(reader[i]) >= 4}

----------------------------------------------------------------------------
(* rose applied to the azimuths and z a caller holds *)

InitRose ==
    /\ azimuths \in AzSeqs
    /\ z \in ZChoices
    /\ isArray \in BOOLEAN
    /\ out = NoOut
    /\ reader = <<>>
    /\ xlist = <<>>
    /\ ylist = <<>>
    /\ called = {}
    /\ anglelist = <<>>
    /\ lengthlist = <<>>
    /\ tracelengths = <<>>

\* one call rose(azimuths, z, bins=.., bidirectional=.., color_by=.., eqarea=..).
\* np.asanyarray hands back the caller's own ndarray, and np.concatenate a new one:
\* lines 224-225 write into the caller's array when it is an ndarray and the call
\* is not bidirectional
Rose(bins, bidirectional, color_by, eqarea) ==
    LET args == [bins |-> bins, bidirectional |-> bidirectional,
                 color_by |-> color_by, eqarea |-> eqarea]
        zs   == ZUsed(azimuths, z, bidirectional, color_by)
        az   == LET f == Folded(azimuths, bidirectional)
                IN  [k \in 1..Len(f) |-> WrapOnce(f[k])]
    IN  /\ out' = RoseResult(az, zs, args)
        /\ azimuths' = IF isArray /\ ~bidirectional THEN az ELSE azimuths
        /\ UNCHANGED <<z, isArray, reader, xlist, ylist, geomVars>>

NextRose ==
    \E bins \in BinChoices, bidirectional \in BOOLEAN,
       color_by \in {"mean", "sum", "count"}, eqarea \in BOOLEAN :
        Rose(bins, bidirectional, color_by, eqarea)

SpecRose == InitRose /\ [][NextRose]_vars

----------------------------------------------------------------------------
(* Properties of rose, checked under SpecRose *)

\* C3: the counts of the bins add up to the number of azimuths handed in, and to
\* twice that number in a bidirectional call: no observation is dropped
C3_CountsSum ==
    out.status = "ok"
    => SumSeq(out.counts) =
         (IF out.args.bidirectional THEN 2 ELSE 1) * Len(azimuths)

\* C4: after lines 224-225 every azimuth, as handed in or folded by +180, lies in
\* [0, 360)
C4_NormalisedRange ==
    out.status = "ok"
    => \A k \in 1..Len(out.norm) : 0 <= out.norm[k] /\ out.norm[k] < 360

RECURSIVE SumOver(_, _)
\* the sum of the z values at the positions S
SumOver(zs, S) ==
    IF S = {} THEN 0
    ELSE LET k == CHOOSE j \in S : TRUE IN zs[k] + SumOver(zs, S \ {k})

\* C5: when z is given (and is as long as the azimuths, all of which the histogram
\* counts) there is one aggregate per bin of the histogram, aggregate i is the
\* reduction of the z values of just the observations the histogram counted in
\* bin i, and the aggregate of a bin without observations is masked
C5_AggregatePerBin ==
    LET bins == out.args.bins
        zs   == ZUsed(azimuths, z, out.args.bidirectional, out.args.color_by).vals
        Obs(i) == {k \in 1..Len(out.norm) : InBin(bins, i, out.norm[k])}
    IN  ( /\ out.status = "ok" /\ out.hasAgg
          /\ z.given /\ out.args.color_by # "count"
          /\ Len(zs) = Len(out.norm)
          /\ \A k \in 1..Len(out.norm) : 0 <= out.norm[k] /\ out.norm[k] <= 360 )
        => /\ Len(out.agg) = bins
           /\ \A i \in 1..bins :
                /\ out.counts[i] = Cardinality(Obs(i))
                /\ out.agg[i].masked = (Obs(i) = {})
                /\ Obs(i) # {} =>
                     out.agg[i].value =
                       IF out.args.color_by = "mean"
                       THEN RoundDiv(SumOver(zs, Obs(i)) * 100, Cardinality(Obs(i)))
                       ELSE SumOver(zs, Obs(i))

\* C6: a call leaves the caller's azimuths and z as they were, and a call repeated
\* with the same arguments returns the same counts
C6_NoSideEffect ==
    [][ /\ azimuths' = azimuths
        /\ z' = z
        /\ (out.status # "none" /\ out'.args = out.args) => out'.counts = out.counts
      ]_vars

\* C9: a call whose z is not as long as its azimuths fails and returns nothing
C9_MismatchFails ==
    ( /\ out.status # "none"
      /\ out.args.color_by # "count"
      /\ z.given
      /\ Len(z.vals) # Len(azimuths) )
    => out.status = "error"

====
